---- MODULE Spec2Model ----
(***************************************************************************)
(* Model of the contract generators src/contracts.py (PDF variant) and     *)
(* src/contracts2.py (HTML variant): the content service client, the       *)
(* markdown-block parsing of the document assemblers, process_state and    *)
(* the batch loop of main.                                                 *)
(*                                                                         *)
(* Python strings are sequences of one-character strings.  A Python value  *)
(* that may be None is a record [tag, text] with tag "none" or "text".     *)
(***************************************************************************)
EXTENDS Integers, Sequences, FiniteSets, TLC

VARIABLES
    variant,            \* "pdf" (contracts.py) or "html" (contracts2.py)
    pc,                 \* position of the control thread in main / process_state
    idx,                \* position of the for loop of main in state_configs
    kind,               \* index of the next content call of process_state
    content,            \* the four locals contract_text .. performance_standards
    status,             \* per record: pending, contracted, assembled, done, failed
    result,             \* value returned by process_state: "none", "true", "false"
    successful_states,  \* main: successful_states
    failed_states,      \* main: failed_states
    files,              \* files written to the output directory
    invoked,            \* records for which create_document was called
    escaped,            \* an exception left process_state
    failure,            \* what failed in the current record, "none" if nothing
    processed,          \* records handed to process_state, in call order
    summary,            \* the generation summary has been printed
    attempts,           \* conversion methods tried for the current record, in order
    requests,           \* content kinds requested for the current record, in order
    call,               \* one invocation of generate_content_with_bedrock
    doc,                \* one run of the markdown loop of create_document
    table,              \* one run of the row parsing of create_table_from_data
    naming,             \* two calls of generate_filename
    prompt              \* one prompt built by StateContractGenerator

vars == <<variant, pc, idx, kind, content, status, result, successful_states,
          failed_states, files, invoked, escaped, failure, processed, summary,
          attempts, requests, call, doc, table, naming, prompt>>

pipelineVars == <<variant, pc, idx, kind, content, status, result,
                  successful_states, failed_states, files, invoked, escaped,
                  failure, processed, summary, attempts, requests>>

pureVars == <<call, doc, table, naming, prompt>>

-----------------------------------------------------------------------------
(* Bounds *)

NumRecords == 3
MaxElems == 2
MaxLen == 7
MaxTblLen == 6
MaxGrid == 2

-----------------------------------------------------------------------------
(* Python str methods used by the sources *)

Whitespace == {" ", "\n", "\t"}

RECURSIVE lstrip(_, _)
lstrip(s, cs) ==
    IF s = <<>> THEN s
    ELSE IF Head(s) \in cs THEN lstrip(Tail(s), cs) ELSE s

RECURSIVE rstrip(_, _)
rstrip(s, cs) ==
    IF s = <<>> THEN s
    ELSE IF s[Len(s)] \in cs THEN rstrip(SubSeq(s, 1, Len(s) - 1), cs) ELSE s

strip(s, cs) == rstrip(lstrip(s, cs), cs)

RECURSIVE split(_, _)
split(s, sep) ==
    IF \A i \in 1..Len(s) : s[i] # sep THEN <<s>>
    ELSE LET i == CHOOSE j \in 1..Len(s) :
                      s[j] = sep /\ \A k \in 1..(j - 1) : s[k] # sep
         IN  <<SubSeq(s, 1, i - 1)>> \o split(SubSeq(s, i + 1, Len(s)), sep)

startswith(s, c) == Len(s) > 0 /\ s[1] = c

count(s, c) == Cardinality({i \in 1..Len(s) : s[i] = c})

Strings(chars, n) == UNION {[1..k -> chars] : k \in 0..n}

-----------------------------------------------------------------------------
(* Python values *)

None == [tag |-> "none", text |-> <<>>]
Unset == [tag |-> "unset", text |-> <<>>]
Str(t) == [tag |-> "text", text |-> t]

\* bool(v) as all([...]) evaluates it: None and "" are false
Truthy(v) == v.tag = "text" /\ v.text # <<>>

\* replies of the content service used when driving the pipeline
Replies ==
    { <<>>,
      <<"#", " ", "a">>,
      <<"a", "\n", "a", "|", "b">>,
      <<"a", "|", "b", "\n", "a">>,
      <<"#", "#", "#", "#", "#", "#", "#", "a">> }

-----------------------------------------------------------------------------
(* Content Service Client: generate_content_with_bedrock *)

\* the step of the invocation that raises, "none" when no step does
FailPoints == {"none", "client", "invoke", "read"}

NonDictElem == [isDict |-> FALSE, hasText |-> FALSE, text |-> <<>>]
NoTextElem == [isDict |-> TRUE, hasText |-> FALSE, text |-> <<>>]
Elems == {NonDictElem, NoTextElem}
            \cup {[isDict |-> TRUE, hasText |-> TRUE, text |-> t] : t \in Replies}

\* the payload behind response["body"]: not JSON, JSON that is no object,
\* an object without "content", or an object whose "content" is a list
NonJson == [json |-> FALSE, isObject |-> FALSE, hasContent |-> FALSE, content |-> <<>>]
NonObject == [json |-> TRUE, isObject |-> FALSE, hasContent |-> FALSE, content |-> <<>>]
NoContent == [json |-> TRUE, isObject |-> TRUE, hasContent |-> FALSE, content |-> <<>>]
Bodies == {NonJson, NonObject, NoContent}
             \cup {[json |-> TRUE, isObject |-> TRUE, hasContent |-> TRUE, content |-> c] :
                       c \in Strings(Elems, MaxElems)}

Raised == [raised |-> TRUE, value |-> None]
Returned(v) == [raised |-> FALSE, value |-> v]

\* mutant: the text of the last element of "content" instead of the first
generate_content_last_element(fail, body) ==
    IF fail = "client" THEN Raised
    ELSE IF fail \in {"invoke", "read"} THEN Returned(None)
    ELSE IF ~body.json \/ ~body.isObject \/ ~body.hasContent THEN Returned(None)
    ELSE IF body.content = <<>> THEN Returned(None)
    ELSE IF ~body.content[Len(body.content)].isDict THEN Returned(None)
    ELSE IF ~body.content[Len(body.content)].hasText THEN Returned(None)
    ELSE Returned(Str(body.content[Len(body.content)].text))

generate_content_with_bedrock(fail, body) ==
    IF fail = "client" THEN Raised                  \* boto3.client(...) is outside the try
    ELSE IF fail = "invoke" THEN Returned(None)     \* invoke_model raises
    ELSE IF fail = "read" THEN Returned(None)       \* response.get("body").read() raises
    ELSE IF ~body.json THEN Returned(None)          \* json.loads raises
    ELSE IF ~body.isObject THEN Returned(None)      \* no .get on the decoded value
    ELSE IF ~body.hasContent THEN Returned(None)    \* None[0]
    ELSE IF body.content = <<>> THEN Returned(None) \* [][0]
    ELSE IF ~body.content[1].isDict THEN Returned(None)
    ELSE IF ~body.content[1].hasText THEN Returned(None)   \* .get("text") is None
    ELSE Returned(Str(body.content[1].text))

\* every way one call can end, over the failure points and payloads
ContentOutcomes ==
    {generate_content_with_bedrock(f, b) : f \in FailPoints, b \in Bodies}

-----------------------------------------------------------------------------
(* Structured-Text Parser: the markdown loop of create_document *)

MdChars == {"#", " ", "a", "\n"}

NonBlank(section) == strip(section, Whitespace) # <<>>

\* contracts.py: Paragraph(text, styles['Heading<level>']) / Paragraph(section, styles['Normal'])
PdfBlock(section) ==
    IF startswith(section, "#")
    THEN [level |-> count(section, "#"),
          text |-> strip(strip(section, {"#"}), Whitespace)]
    ELSE [level |-> 0, text |-> section]

PdfBlocks(contract_content) ==
    LET sections == SelectSeq(split(contract_content, "\n"), NonBlank)
    IN  [i \in 1..Len(sections) |-> PdfBlock(sections[i])]

\* contracts2.py: <h{level}>text</h{level}> / <p>line</p>
HtmlBlock(line) ==
    IF startswith(line, "#")
    THEN [level |-> count(line, "#"),
          text |-> strip(strip(line, {"#"}), Whitespace)]
    ELSE [level |-> 0, text |-> line]

HtmlBlocks(contract_content) ==
    LET lines == SelectSeq(split(contract_content, "\n"), NonBlank)
    IN  [i \in 1..Len(lines) |-> HtmlBlock(lines[i])]

-----------------------------------------------------------------------------
(* Structured-Text Parser: the row parsing of create_table_from_data *)

TblChars == {"|", " ", "a", "b", "\n"}

\* rows = [row.strip().split('|') for row in data.strip().split('\n')]
split_rows(data) ==
    LET lines == split(strip(data, Whitespace), "\n")
    IN  [i \in 1..Len(lines) |-> split(strip(lines[i], Whitespace), "|")]

\* mutant: the cells are left as split
strip_cells_skipped(rows) == rows

\* rows = [[cell.strip() for cell in row] for row in rows]
strip_cells(rows) ==
    [i \in 1..Len(rows) |->
        [j \in 1..Len(rows[i]) |-> strip(rows[i][j], Whitespace)]]

\* mutant: every row is cut or padded with '' to the length of the header
table_rows_squared(data) ==
    LET rows == strip_cells(split_rows(data))
    IN  [i \in 1..Len(rows) |->
            [j \in 1..Len(rows[1]) |->
                IF j <= Len(rows[i]) THEN rows[i][j] ELSE <<>>]]

\* the grid create_table_from_data hands to the column widths and to Table
table_rows(data) == strip_cells(split_rows(data))

-----------------------------------------------------------------------------
(* Document Assembler: the parts of the artifact, in the order they are emitted *)

\* style names of getSampleStyleSheet(): Heading1 .. Heading6
HeadingStyles == 1..6

Part(part, of) == [part |-> part, of |-> of]

AttachmentTitles ==
    <<"Attachment A: Rate Schedule", "Attachment B: Service Areas",
      "Attachment C: Performance Standards">>

\* what create_table_from_data returns: the title paragraph, the table, a spacer
table_elements(table_title) ==
    <<Part("table title", table_title), Part("table", table_title), Part("spacer", "")>>

\* index of the first block whose heading style does not exist, 0 when there is none
FirstBadHeading(blocks) ==
    LET bad == {i \in 1..Len(blocks) :
                   blocks[i].level # 0 /\ blocks[i].level \notin HeadingStyles}
    IN  IF bad = {} THEN 0 ELSE CHOOSE i \in bad : \A j \in bad : i <= j

\* the style name the markdown loop of contracts.py looks up for a block
pdf_style(block) ==
    IF block.level = 0 THEN "Normal" ELSE "Heading" \o ToString(block.level)

\* the tag the markdown loop of contracts2.py wraps a block in
html_tag(block) ==
    IF block.level = 0 THEN "p" ELSE "h" \o ToString(block.level)

\* self.story of ContractPDF.create_document, append by append; the loop over the
\* contract body stops at the first heading whose style lookup raises
pdf_story(blocks) ==
    LET bad  == FirstBadHeading(blocks)
        n    == IF bad = 0 THEN Len(blocks) ELSE bad - 1
        head == <<Part("title", ""), Part("page break", ""),
                  Part("toc heading", "Table of Contents"), Part("toc", ""),
                  Part("page break", "")>>
        body == [i \in 1..n |-> Part("body", pdf_style(blocks[i]))]
    IN  IF bad = 0
        THEN head \o body \o <<Part("attachments heading", "Attachments")>>
                 \o table_elements(AttachmentTitles[1])
                 \o table_elements(AttachmentTitles[2])
                 \o table_elements(AttachmentTitles[3])
        ELSE head \o body

\* the rendered html_template of ContractHTML, element by element of its body
html_story(blocks) ==
    <<Part("title", ""), Part("date", "")>>
        \o [i \in 1..Len(blocks) |-> Part("body", html_tag(blocks[i]))]
        \o <<Part("table title", AttachmentTitles[1]), Part("table", AttachmentTitles[1]),
             Part("table title", AttachmentTitles[2]), Part("table", AttachmentTitles[2]),
             Part("table title", AttachmentTitles[3]), Part("table", AttachmentTitles[3]),
             Part("footer", "")>>

-----------------------------------------------------------------------------
(* Idle values of the groups of variables *)

Records == SubSeq(<<"FL", "TX", "CA", "NY", "IL", "PA", "OH", "MI", "GA", "NC",
                    "VA", "WA", "MA">>, 1, NumRecords)

Codes == {Records[i] : i \in 1..Len(Records)}

Kinds == 1..4      \* contract body, rate schedule, service areas, performance standards

NoContentYet == [k \in Kinds |-> Unset]

PipelineIdle ==
    /\ variant = "none"
    /\ pc = "idle"
    /\ idx = 1
    /\ kind = 1
    /\ content = NoContentYet
    /\ status = [c \in Codes |-> "pending"]
    /\ result = "none"
    /\ successful_states = 0
    /\ failed_states = <<>>
    /\ files = {}
    /\ invoked = {}
    /\ escaped = FALSE
    /\ failure = "none"
    /\ processed = <<>>
    /\ summary = FALSE
    /\ attempts = <<>>
    /\ requests = <<>>

CallIdle == [stage |-> "idle", fail |-> "none", body |-> NonJson,
             raised |-> FALSE, value |-> Unset]

DocIdle == [stage |-> "idle", variant |-> "none", reply |-> <<>>, blocks |-> <<>>,
            story |-> <<>>, raised |-> "none"]

TableIdle == [stage |-> "idle", data |-> <<>>, rows |-> <<>>]

NamingIdle == [stage |-> "idle"]

PromptIdle == [stage |-> "idle"]

-----------------------------------------------------------------------------
(* SpecClient: generate_content_with_bedrock on every failure point and payload *)

InitClient ==
    /\ PipelineIdle
    /\ doc = DocIdle
    /\ table = TableIdle
    /\ naming = NamingIdle
    /\ prompt = PromptIdle
    /\ \E f \in FailPoints, b \in Bodies :
          call = [stage |-> "called", fail |-> f, body |-> b,
                  raised |-> FALSE, value |-> Unset]

Invoke ==
    /\ call.stage = "called"
    /\ LET r == generate_content_with_bedrock(call.fail, call.body)
       IN  call' = [call EXCEPT !.stage = "returned",
                                !.raised = r.raised, !.value = r.value]
    /\ UNCHANGED <<pipelineVars, doc, table, naming, prompt>>

NextClient == Invoke

SpecClient == InitClient /\ [][NextClient]_vars

-----------------------------------------------------------------------------
(* SpecParse: the markdown loop on every reply over MdChars up to MaxLen *)

InitParse ==
    /\ PipelineIdle
    /\ call = CallIdle
    /\ table = TableIdle
    /\ naming = NamingIdle
    /\ prompt = PromptIdle
    /\ \E v \in {"pdf", "html"}, r \in Strings(MdChars, MaxLen) :
          doc = [stage |-> "reply", variant |-> v, reply |-> r, blocks |-> <<>>,
                 story |-> <<>>, raised |-> "none"]

ParsePdf ==
    /\ doc.stage = "reply"
    /\ doc.variant = "pdf"
    /\ doc' = [doc EXCEPT !.stage = "parsed", !.blocks = PdfBlocks(doc.reply),
                           !.story = pdf_story(PdfBlocks(doc.reply)),
                           !.raised = IF FirstBadHeading(PdfBlocks(doc.reply)) = 0
                                      THEN "none" ELSE "KeyError"]
    /\ UNCHANGED <<pipelineVars, call, table, naming, prompt>>

ParseHtml ==
    /\ doc.stage = "reply"
    /\ doc.variant = "html"
    /\ doc' = [doc EXCEPT !.stage = "parsed", !.blocks = HtmlBlocks(doc.reply),
                           !.story = html_story(HtmlBlocks(doc.reply))]
    /\ UNCHANGED <<pipelineVars, call, table, naming, prompt>>

NextParse == ParsePdf \/ ParseHtml

SpecParse == InitParse /\ [][NextParse]_vars

-----------------------------------------------------------------------------
(* SpecTable: the row parsing on every reply over TblChars up to MaxTblLen *)

InitTable ==
    /\ PipelineIdle
    /\ call = CallIdle
    /\ doc = DocIdle
    /\ naming = NamingIdle
    /\ prompt = PromptIdle
    /\ \E r \in Strings(TblChars, MaxTblLen) :
          table = [stage |-> "reply", data |-> r, rows |-> <<>>]

ParseTable ==
    /\ table.stage = "reply"
    /\ table' = [table EXCEPT !.stage = "parsed", !.rows = table_rows(table.data)]
    /\ UNCHANGED <<pipelineVars, call, doc, naming, prompt>>

NextTable == ParseTable

SpecTable == InitTable /\ [][NextTable]_vars

-----------------------------------------------------------------------------
(* SpecWidth: the column widths of create_table_from_data on grids of cells *)

\* reportlab.lib.units.inch, in points
inch == 72

\* width of the page size letter, in points
LetterWidth == 612

rightMargin == 72
leftMargin == 72

\* SimpleDocTemplate.width: the page width between the margins
doc_width == LetterWidth - leftMargin - rightMargin

\* lengths in points are kept exact, as fractions num / den with den > 0
Frac(n, d) == [num |-> n, den |-> d]

FracLeq(a, b) == a.num * b.den <= b.num * a.den

FracEq(a, b) == a.num * b.den = b.num * a.den

FracMin(a, b) == IF FracLeq(a, b) THEN a ELSE b

FracAdd(a, b) == Frac(a.num * b.den + b.num * a.den, a.den * b.den)

\* max(len(str(row[col_idx])) for row in rows)
max_width(rows, col_idx) ==
    CHOOSE m \in {Len(rows[i][col_idx]) : i \in 1..Len(rows)} :
        \A i \in 1..Len(rows) : Len(rows[i][col_idx]) <= m

\* mutant: the width is not capped
col_widths_uncapped(rows) ==
    [col_idx \in 1..Len(rows[1]) |-> Frac(max_width(rows, col_idx) * inch, 10)]

\* col_widths: min(max_width * 0.1 * inch, self.doc.width / len(rows[0])) per column
col_widths(rows) ==
    [col_idx \in 1..Len(rows[1]) |->
        FracMin(Frac(max_width(rows, col_idx) * inch, 10),
                Frac(doc_width, Len(rows[1])))]

\* cell texts of 0, 1, 33 and 66 characters: 33 characters pass the cap of a grid of
\* two columns, 66 that of one column
CellTexts == {[i \in 1..n |-> "a"] : n \in {0, 1, 33, 66}}

\* the grids of r rows of c cells
Grids(r, c) == [1..r -> [1..c -> CellTexts]]

InitWidth ==
    /\ PipelineIdle
    /\ call = CallIdle
    /\ doc = DocIdle
    /\ naming = NamingIdle
    /\ prompt = PromptIdle
    /\ \E r \in 1..MaxGrid, c \in 1..MaxGrid :
          \E g \in Grids(r, c) :
              table = [stage |-> "rows", data |-> <<>>, rows |-> g, widths |-> <<>>]

ColumnWidths ==
    /\ table.stage = "rows"
    /\ table' = [table EXCEPT !.stage = "widths", !.widths = col_widths(table.rows)]
    /\ UNCHANGED <<pipelineVars, call, doc, naming, prompt>>

NextWidth == ColumnWidths

SpecWidth == InitWidth /\ [][NextWidth]_vars

-----------------------------------------------------------------------------
(* SpecName: generate_filename called twice for one record *)

\* values of datetime.now(): two years, months and days of one and of two digits, and
\* two times of day
Instants == [year : {2024, 2025}, month : {1, 11}, day : {2, 12}, hour : {0, 23}]

RECURSIVE zfill(_, _)
\* s padded on the left with zeros to width w
zfill(s, w) == IF Len(s) >= w THEN s ELSE zfill("0" \o s, w)

\* mutant: the fields of the date without zero padding
strftime_unpadded(now) == ToString(now.year) \o ToString(now.month) \o ToString(now.day)

\* datetime.strftime("%Y%m%d")
strftime_Ymd(now) ==
    zfill(ToString(now.year), 4) \o zfill(ToString(now.month), 2)
        \o zfill(ToString(now.day), 2)

\* the f-string of contracts.py ends with ".pdf", the one of contracts2.py does not
Extension(v) == IF v = "pdf" THEN ".pdf" ELSE ""

generate_filename(v, base_name, state_abbrev, now) ==
    base_name \o "_" \o state_abbrev \o "_" \o strftime_Ymd(now) \o Extension(v)

\* the base name process_state passes
BaseName == "Transportation_Contract"

InitName ==
    /\ PipelineIdle
    /\ call = CallIdle
    /\ doc = DocIdle
    /\ table = TableIdle
    /\ prompt = PromptIdle
    /\ \E v \in {"pdf", "html"}, c \in Codes, t1 \in Instants, t2 \in Instants :
          naming = [stage |-> "start", variant |-> v, state_abbrev |-> c,
                    first |-> t1, second |-> t2, names |-> <<>>]

\* the run at the instant naming.first
FirstRun ==
    /\ naming.stage = "start"
    /\ naming' = [naming EXCEPT
                     !.stage = "first",
                     !.names = <<generate_filename(naming.variant, BaseName,
                                                   naming.state_abbrev, naming.first)>>]
    /\ UNCHANGED <<pipelineVars, call, doc, table, prompt>>

\* the rerun for the same record at the instant naming.second
SecondRun ==
    /\ naming.stage = "first"
    /\ naming' = [naming EXCEPT
                     !.stage = "second",
                     !.names = Append(naming.names,
                                      generate_filename(naming.variant, BaseName,
                                                        naming.state_abbrev,
                                                        naming.second))]
    /\ UNCHANGED <<pipelineVars, call, doc, table, prompt>>

NextName == FirstRun \/ SecondRun

SpecName == InitName /\ [][NextName]_vars

-----------------------------------------------------------------------------
(* SpecPrompt: the prompt of each content kind for a record *)

\* str() of an int inside an f-string
str(n) == ToString(n)

\* mutant: only the first element is kept
join_first_only(seq, sep) == IF seq = <<>> THEN "" ELSE seq[1]

RECURSIVE join(_, _)
\* sep.join(seq)
join(seq, sep) ==
    IF seq = <<>> THEN ""
    ELSE IF Len(seq) = 1 THEN seq[1]
    ELSE seq[1] \o sep \o join(Tail(seq), sep)

\* contracts.py: the prompt of create_contract, lines 59-72
create_contract_pdf(r) ==
    "Generate a detailed contract between the " \o r.health_agency \o " (located in "
    \o r.agency_city \o ", " \o r.state \o ") \n"
    \o "        and " \o r.provider_name \o " (a transportation provider headquartered in "
    \o r.provider_city \o ", " \o r.state \o "). \n"
    \o "\n"
    \o "        Use these specific details:\n"
    \o "        - Contract date: " \o r.contract_date \o "\n"
    \o "        - Term: " \o r.provider_details.term \o "\n"
    \o "        - Service area: " \o join(r.service_regions, ", ") \o "\n"
    \o "        - Provider details: \n"
    \o "            * Fleet size: " \o str(r.provider_details.fleet_size) \o " vehicles\n"
    \o "            * Operating hours: " \o r.provider_details.operating_hours \o "\n"
    \o "            * Number of certified drivers: " \o str(r.provider_details.driver_count)
    \o "\n"
    \o "        \n"
    \o "        The response should be in a format that can be parsed into sections, with clear headings marked by '#' symbols.\n"
    \o "        Include standard contract sections but make all details specific to "
    \o r.state \o " and medical transportation."

\* contracts.py: the prompt of generate_rate_schedule, lines 77-96
generate_rate_schedule_pdf(r) ==
    "Generate a detailed transportation rate schedule for " \o r.health_agency
    \o " contract with " \o r.provider_name \o " \n"
    \o "        in " \o r.state
    \o ". The response should be in a format that can be converted to a table with the following columns:\n"
    \o "        \n"
    \o "        Service Type | Base Rate | Mileage Rate | Wait Time Rate | After Hours | Weekend/Holiday\n"
    \o "        \n"
    \o "        Include these service types:\n"
    \o "        - Standard Vehicle Transport\n"
    \o "        - Wheelchair Accessible Vehicle\n"
    \o "        - Stretcher Transport\n"
    \o "        - Bariatric Transport\n"
    \o "        - Group Transport\n"
    \o "        \n"
    \o "        Consider " \o r.state \o "'s:\n"
    \o "        - Cost of living\n"
    \o "        - Fuel costs\n"
    \o "        - Urban vs rural rates\n"
    \o "        - State regulations\n"
    \o "        \n"
    \o "        Make rates realistic for " \o r.state \o " market in 2024.\n"
    \o "        Format the response as pipe-separated values for easy table creation."

\* contracts.py: the prompt of generate_service_areas, lines 101-118
generate_service_areas_pdf(r) ==
    "Generate a detailed service area coverage table for " \o r.provider_name
    \o "'s contract in " \o r.state \o ".\n"
    \o "        The response should be in a format that can be converted to a table with the following columns:\n"
    \o "\n"
    \o "        Service Zone | Counties Covered | Response Time | Population Served | Facilities Covered | Special Conditions\n"
    \o "\n"
    \o "        Create entries for:\n"
    \o "        - Primary urban zones\n"
    \o "        - Suburban areas\n"
    \o "        - Rural coverage\n"
    \o "        - Special service areas\n"
    \o "        \n"
    \o "        Consider " \o r.state \o "'s:\n"
    \o "        - Geographic features\n"
    \o "        - Population distribution\n"
    \o "        - Healthcare facility locations\n"
    \o "        - Emergency service requirements\n"
    \o "\n"
    \o "        Format the response as pipe-separated values for easy table creation."

\* contracts.py: the prompt of generate_performance_standards, lines 123-141
generate_performance_standards_pdf(r) ==
    "Generate detailed performance standards for " \o r.provider_name \o "'s contract in "
    \o r.state \o ".\n"
    \o "        The response should be in a format that can be converted to a table with the following columns:\n"
    \o "\n"
    \o "        Performance Category | Standard | Measurement Method | Minimum Target | Penalty for Non-Compliance\n"
    \o "\n"
    \o "        Include standards for:\n"
    \o "        - On-time performance\n"
    \o "        - Vehicle maintenance\n"
    \o "        - Driver qualifications\n"
    \o "        - Customer service\n"
    \o "        - Safety metrics\n"
    \o "        - Complaint resolution\n"
    \o "        \n"
    \o "        Consider " \o r.state \o "'s:\n"
    \o "        - Healthcare regulations\n"
    \o "        - Quality metrics\n"
    \o "        - Reporting requirements\n"
    \o "        \n"
    \o "        Format the response as pipe-separated values for easy table creation."

\* contracts2.py: the prompt of create_contract, lines 285-312
create_contract_html(r) ==
    "Create a detailed transportation services contract between " \o r.health_agency \o " and "
    \o r.provider_name \o ".\n"
    \o "        Format the response as HTML with proper sections and headings.\n"
    \o "        \n"
    \o "        Include these key details:\n"
    \o "        - Contract date: " \o r.contract_date \o "\n"
    \o "        - Agency location: " \o r.agency_city \o ", " \o r.state \o "\n"
    \o "        - Provider location: " \o r.provider_city \o ", " \o r.state \o "\n"
    \o "        - Term: " \o r.provider_details.term \o "\n"
    \o "        - Service areas: " \o join(r.service_regions, ", ") \o "\n"
    \o "        - Fleet size: " \o str(r.provider_details.fleet_size) \o " vehicles\n"
    \o "        - Operating hours: " \o r.provider_details.operating_hours \o "\n"
    \o "        - Driver count: " \o str(r.provider_details.driver_count) \o "\n"
    \o "\n"
    \o "        Include standard sections:\n"
    \o "        1. Parties and Purpose\n"
    \o "        2. Definitions\n"
    \o "        3. Term and Renewal\n"
    \o "        4. Scope of Services\n"
    \o "        5. Provider Responsibilities\n"
    \o "        6. Agency Responsibilities\n"
    \o "        7. Compensation\n"
    \o "        8. Compliance and Reporting\n"
    \o "        9. Insurance and Liability\n"
    \o "        10. Termination\n"
    \o "        11. General Provisions\n"
    \o "\n"
    \o "        Format as clean HTML with proper headings and paragraphs.\n"
    \o "        Make all details specific to " \o r.state \o " and medical transportation."

\* contracts2.py: the prompt of generate_rate_schedule, lines 317-335
generate_rate_schedule_html(r) ==
    "Create an HTML table showing transportation rates for " \o r.provider_name \o " in "
    \o r.state \o ".\n"
    \o "        \n"
    \o "        Include these service types:\n"
    \o "        - Standard Vehicle Transport\n"
    \o "        - Wheelchair Accessible Vehicle\n"
    \o "        - Stretcher Transport\n"
    \o "        - Bariatric Transport\n"
    \o "        - Group Transport\n"
    \o "\n"
    \o "        Table columns:\n"
    \o "        - Service Type\n"
    \o "        - Base Rate\n"
    \o "        - Mileage Rate\n"
    \o "        - Wait Time Rate\n"
    \o "        - After Hours Rate\n"
    \o "        - Weekend/Holiday Rate\n"
    \o "\n"
    \o "        Return a properly formatted HTML table with realistic rates for " \o r.state
    \o ".\n"
    \o "        Include <thead> and <tbody> tags, and proper styling classes."

\* contracts2.py: the prompt of generate_service_areas, lines 340-357
generate_service_areas_html(r) ==
    "Create an HTML table showing service area details for " \o r.provider_name \o " in "
    \o r.state \o ".\n"
    \o "        \n"
    \o "        Include these zones:\n"
    \o "        - Primary Urban Areas\n"
    \o "        - Suburban Regions\n"
    \o "        - Rural Coverage\n"
    \o "        - Special Service Areas\n"
    \o "\n"
    \o "        Table columns:\n"
    \o "        - Service Zone\n"
    \o "        - Counties Covered\n"
    \o "        - Response Time\n"
    \o "        - Population Served\n"
    \o "        - Facilities Covered\n"
    \o "        - Special Conditions\n"
    \o "\n"
    \o "        Return a properly formatted HTML table specific to " \o r.state \o ".\n"
    \o "        Include <thead> and <tbody> tags, and proper styling classes."

\* contracts2.py: the prompt of generate_performance_standards, lines 362-379
generate_performance_standards_html(r) ==
    "Create an HTML table showing performance standards for " \o r.provider_name \o " in "
    \o r.state \o ".\n"
    \o "        \n"
    \o "        Include these categories:\n"
    \o "        - On-time Performance\n"
    \o "        - Vehicle Maintenance\n"
    \o "        - Driver Qualifications\n"
    \o "        - Safety Metrics\n"
    \o "        - Complaint Resolution\n"
    \o "\n"
    \o "        Table columns:\n"
    \o "        - Performance Category\n"
    \o "        - Standard Description\n"
    \o "        - Measurement Method\n"
    \o "        - Minimum Target\n"
    \o "        - Non-Compliance Penalty\n"
    \o "\n"
    \o "        Return a properly formatted HTML table with realistic standards.\n"
    \o "        Include <thead> and <tbody> tags, and proper styling classes."

\* the prompt of content kind k in variant v for the record r
build_prompt(v, k, r) ==
    IF v = "pdf"
    THEN CASE k = 1 -> create_contract_pdf(r)
           [] k = 2 -> generate_rate_schedule_pdf(r)
           [] k = 3 -> generate_service_areas_pdf(r)
           [] k = 4 -> generate_performance_standards_pdf(r)
    ELSE CASE k = 1 -> create_contract_html(r)
           [] k = 2 -> generate_rate_schedule_html(r)
           [] k = 3 -> generate_service_areas_html(r)
           [] k = 4 -> generate_performance_standards_html(r)

\* records whose fields take the values of the entries "FL" and "TX" of state_configs,
\* and a list of one region and of no region besides the two lists of three
JurisdictionRecords ==
    [state : {"Florida", "Texas"},
     health_agency : {"Florida Department of Health",
                      "Texas Health and Human Services Commission"},
     agency_city : {"Tallahassee", "Austin"},
     provider_name : {"SafeRide Transit Solutions", "Lone Star Medical Transport"},
     provider_city : {"Orlando", "Houston"},
     service_regions : {<<"Orange County", "Seminole County", "Osceola County">>,
                        <<"Harris County", "Fort Bend County", "Montgomery County">>,
                        <<"Orange County">>, <<>>},
     contract_date : {"March 15, 2024", "April 1, 2024"},
     provider_details : [fleet_size : {50, 75},
                         operating_hours : {"24/7"},
                         driver_count : {120, 180},
                         term : {"2-year contract with 1-year renewal option",
                                 "3-year contract with two 1-year renewal options"}]]

InitPrompt ==
    /\ PipelineIdle
    /\ call = CallIdle
    /\ doc = DocIdle
    /\ table = TableIdle
    /\ naming = NamingIdle
    /\ \E v \in {"pdf", "html"}, k \in Kinds, r \in JurisdictionRecords :
          prompt = [stage |-> "record", variant |-> v, kind |-> k, record |-> r,
                    text |-> ""]

BuildPrompt ==
    /\ prompt.stage = "record"
    /\ prompt' = [prompt EXCEPT
                     !.stage = "built",
                     !.text = build_prompt(prompt.variant, prompt.kind, prompt.record)]
    /\ UNCHANGED <<pipelineVars, call, doc, table, naming>>

NextPrompt == BuildPrompt

SpecPrompt == InitPrompt /\ [][NextPrompt]_vars

-----------------------------------------------------------------------------
(* Document Assembler and Batch Driver: process_state and main *)

cur == Records[idx]

\* classes the handler "except Exception" of process_state catches
ExceptionSubclasses ==
    {"ClientCreationError", "KeyError", "IndexError", "OSError", "LayoutError"}

\* mutant: a handler that names one exception class only
process_state_except_KeyError(exc) == exc = "KeyError"

\* TRUE when the handler of process_state catches exc and returns False
process_state_except(exc) == exc \in ExceptionSubclasses

\* mutant: only the contract body is tested
content_gate_contract_only(c) == Truthy(c[1])

\* mutant: "is not None" instead of truthiness
content_gate_not_none(c) == \A k \in Kinds : c[k].tag = "text"

\* mutant: any() instead of all()
content_gate_any(c) == \E k \in Kinds : Truthy(c[k])

\* if all([contract_text, rate_schedule, service_areas, performance_standards])
content_gate(c) == \A k \in Kinds : Truthy(c[k])

\* the exception the column-width loop of create_table_from_data ends with:
\* row[col_idx] for col_idx in range(len(rows[0])) fails on a row shorter than rows[0]
table_exception(data) ==
    IF \E i \in 1..Len(table_rows(data)) :
           Len(table_rows(data)[i]) < Len(table_rows(data)[1])
    THEN "IndexError"
    ELSE "none"

\* the replies whose table has a row shorter than its header
ShortRowReplies == {r \in Replies : table_exception(r) # "none"}

\* the exception ContractPDF.create_document ends with, "none" when it returns;
\* engine: the layout engine (Paragraph, Table, multiBuild) raises, which for a row
\* longer than the header depends on the engine's setting for short rows
pdf_create_document(c, engine) ==
    IF \E i \in 1..Len(PdfBlocks(c[1].text)) :
           /\ PdfBlocks(c[1].text)[i].level # 0
           /\ PdfBlocks(c[1].text)[i].level \notin HeadingStyles
    THEN "KeyError"
    ELSE IF \E k \in 2..4 : c[k].text \in ShortRowReplies
    THEN "IndexError"
    ELSE IF engine THEN "LayoutError" ELSE "none"

\* mutant: a failed record is put at the front of the list
tally_failed_first(succ, failed, code, ok) ==
    IF ok THEN [succ |-> succ + 1, failed |-> failed]
    ELSE [succ |-> succ, failed |-> <<code>> \o failed]

\* mutant: the counter is incremented outside the if
tally_always_counts(succ, failed, code, ok) ==
    IF ok THEN [succ |-> succ + 1, failed |-> failed]
    ELSE [succ |-> succ + 1, failed |-> Append(failed, code)]

\* the if/else on process_state's result in the loop of main
tally(succ, failed, code, ok) ==
    IF ok THEN [succ |-> succ + 1, failed |-> failed]
    ELSE [succ |-> succ, failed |-> Append(failed, code)]

\* mutant: the loop breaks at the first failed record
next_record_break_on_failure(i, ok) == IF ok THEN i + 1 ELSE NumRecords + 1

\* the for loop of main goes on to the next record whatever the result
next_record(i, ok) == i + 1

File(code, ext) == [code |-> code, ext |-> ext]

\* mutant: a call that returned None is made again
next_call_retry_on_none(k, v) == IF v = None THEN k ELSE k + 1

\* the content call that follows call k, whatever value v call k returned
next_call(k, v) == k + 1

\* the conversion methods in the order of the nested try blocks
conversion_methods ==
    << [from |-> "file", options |-> "full"],
       [from |-> "string", options |-> "full"],
       [from |-> "file", options |-> "simple"] >>

ConvPcs == <<"conv1", "conv2", "conv3">>

\* mutant: no nested try, the first failure is final
after_failure_no_fallback(k) == "fail"

\* where the except clause of method k leads: the next method, or the raise after
\* the last one
after_failure(k) == IF k < Len(conversion_methods) THEN ConvPcs[k + 1] ELSE "fail"

\* mutant: the handler of a failed conversion removes the .html file
conversion_handler_cleanup(fs, code) == fs \ {File(code, "html")}

\* the files left by the handler of a failed conversion: it prints and returns False
conversion_handler(fs, code) == fs

\* an exception raised inside the try of process_state
Except(exc, why) ==
    /\ failure' = why
    /\ IF process_state_except(exc)
       THEN /\ pc' = "ret"
            /\ result' = "false"
            /\ status' = [status EXCEPT ![cur] = "failed"]
            /\ UNCHANGED escaped
       ELSE /\ pc' = "crashed"
            /\ escaped' = TRUE
            /\ UNCHANGED <<result, status>>

\* return False of process_state outside the outer handler
ReturnFalse(why) ==
    /\ failure' = why
    /\ pc' = "ret"
    /\ result' = "false"
    /\ status' = [status EXCEPT ![cur] = "failed"]
    /\ UNCHANGED escaped

Init ==
    /\ variant \in {"pdf", "html"}
    /\ pc = "main_loop"
    /\ idx = 1
    /\ kind = 1
    /\ content = NoContentYet
    /\ status = [c \in Codes |-> "pending"]
    /\ result = "none"
    /\ successful_states = 0
    /\ failed_states = <<>>
    /\ files = {}
    /\ invoked = {}
    /\ escaped = FALSE
    /\ failure = "none"
    /\ processed = <<>>
    /\ summary = FALSE
    /\ attempts = <<>>
    /\ requests = <<>>
    /\ call = CallIdle
    /\ doc = DocIdle
    /\ table = TableIdle
    /\ naming = NamingIdle
    /\ prompt = PromptIdle

\* main: the for loop hands the next record to process_state
EnterRecord ==
    /\ pc = "main_loop"
    /\ idx <= NumRecords
    /\ processed' = Append(processed, cur)
    /\ pc' = "content"
    /\ kind' = 1
    /\ UNCHANGED <<variant, idx, content, status, result, successful_states,
                   failed_states, files, invoked, escaped, failure, summary,
                   attempts, requests,
                   pureVars>>

\* process_state: create_contract, generate_rate_schedule, generate_service_areas,
\* generate_performance_standards, each one call of generate_content_with_bedrock
ContentCall ==
    /\ pc = "content"
    /\ \E r \in ContentOutcomes :
              IF r.raised
              THEN /\ Except("ClientCreationError", "client")
                   /\ UNCHANGED <<content, kind>>
              ELSE /\ content' = [content EXCEPT ![kind] = r.value]
                   /\ IF next_call(kind, r.value) \in Kinds
                      THEN pc' = "content" /\ kind' = next_call(kind, r.value)
                      ELSE pc' = "gate" /\ UNCHANGED kind
                   /\ UNCHANGED <<result, status, escaped, failure>>
    /\ requests' = Append(requests, kind)
    /\ UNCHANGED <<variant, idx, successful_states, failed_states, files,
                   invoked, processed, summary, attempts, pureVars>>

\* process_state: the all([...]) test and its else branch
Gate ==
    /\ pc = "gate"
    /\ IF content_gate(content)
       THEN /\ pc' = "assemble"
            /\ status' = [status EXCEPT ![cur] = "contracted"]
            /\ UNCHANGED <<result, escaped, failure>>
       ELSE ReturnFalse("gate")
    /\ UNCHANGED <<variant, idx, kind, content, successful_states, failed_states,
                   files, invoked, processed, summary, attempts, requests,
                   pureVars>>

\* contracts.py: ContractPDF(...).create_document(...), which writes the .pdf
AssemblePdf ==
    /\ pc = "assemble"
    /\ variant = "pdf"
    /\ invoked' = invoked \cup {cur}
    /\ \E engine \in BOOLEAN :
          LET exc == pdf_create_document(content, engine)
          IN  IF exc = "none"
              THEN /\ files' = files \cup {File(cur, "pdf")}
                   /\ status' = [status EXCEPT ![cur] = "assembled"]
                   /\ pc' = "success"
                   /\ UNCHANGED <<result, escaped, failure>>
              ELSE /\ Except(exc, "assembler")
                   /\ UNCHANGED files
    /\ UNCHANGED <<variant, idx, kind, content, successful_states, failed_states,
                   processed, summary, attempts, requests,
                   pureVars>>

\* contracts2.py: ContractHTML(...).create_document(...) and the write of the .html
AssembleHtml ==
    /\ pc = "assemble"
    /\ variant = "html"
    /\ invoked' = invoked \cup {cur}
    /\ \E written \in BOOLEAN :
          IF written
          THEN /\ files' = files \cup {File(cur, "html")}
               /\ status' = [status EXCEPT ![cur] = "assembled"]
               /\ pc' = "configure"
               /\ UNCHANGED <<result, escaped, failure>>
          ELSE /\ Except("OSError", "assembler")
               /\ UNCHANGED files
    /\ UNCHANGED <<variant, idx, kind, content, successful_states, failed_states,
                   processed, summary, attempts, requests,
                   pureVars>>

\* contracts2.py: pdfkit.configuration() inside the conversion try
Configure ==
    /\ pc = "configure"
    /\ \E found \in BOOLEAN :
          IF found
          THEN /\ pc' = "conv1"
               /\ UNCHANGED <<result, status, escaped, failure, files>>
          ELSE /\ ReturnFalse("configure")
               /\ files' = conversion_handler(files, cur)
    /\ UNCHANGED <<variant, idx, kind, content, successful_states, failed_states,
                   invoked, processed, summary, attempts, requests,
                   pureVars>>

\* contracts2.py: the three conversion methods, tried in turn
Convert(at, onFailure) ==
    /\ pc = at
    /\ attempts' = Append(attempts, conversion_methods[Len(attempts) + 1])
    /\ \E converted \in BOOLEAN :
          IF converted
          THEN /\ files' = files \cup {File(cur, "pdf")}
               /\ pc' = "success"
               /\ UNCHANGED <<result, status, escaped, failure>>
          ELSE IF onFailure = "fail"
               THEN /\ ReturnFalse("renderer")
                    /\ files' = conversion_handler(files, cur)
               ELSE /\ pc' = onFailure
                    /\ UNCHANGED <<result, status, escaped, failure, files>>
    /\ UNCHANGED <<variant, idx, kind, content, successful_states, failed_states,
                   invoked, processed, summary, requests, pureVars>>

Convert1 == Convert("conv1", after_failure(1))
Convert2 == Convert("conv2", after_failure(2))
Convert3 == Convert("conv3", after_failure(3))

\* process_state: "Successfully generated ..." and return True
ReturnTrue ==
    /\ pc = "success"
    /\ pc' = "ret"
    /\ result' = "true"
    /\ status' = [status EXCEPT ![cur] = "done"]
    /\ UNCHANGED <<variant, idx, kind, content, successful_states, failed_states,
                   files, invoked, escaped, failure, processed, summary, attempts, requests,
                   pureVars>>

\* main: count the result of process_state and go on with the loop
Tally ==
    /\ pc = "ret"
    /\ LET t == tally(successful_states, failed_states, cur, result = "true")
       IN  /\ successful_states' = t.succ
           /\ failed_states' = t.failed
    /\ idx' = next_record(idx, result = "true")
    /\ pc' = "main_loop"
    /\ content' = NoContentYet
    /\ kind' = 1
    /\ result' = "none"
    /\ failure' = "none"
    /\ attempts' = <<>>
    /\ requests' = <<>>
    /\ UNCHANGED <<variant, status, files, invoked, escaped, processed, summary,
                   pureVars>>

\* main: the summary printed after the loop
Summary ==
    /\ pc = "main_loop"
    /\ idx > NumRecords
    /\ summary' = TRUE
    /\ pc' = "finished"
    /\ UNCHANGED <<variant, idx, kind, content, status, result, successful_states,
                   failed_states, files, invoked, escaped, failure, processed,
                   attempts, requests,
                   pureVars>>

Next ==
    \/ EnterRecord
    \/ ContentCall
    \/ Gate
    \/ AssemblePdf
    \/ AssembleHtml
    \/ Configure
    \/ Convert1
    \/ Convert2
    \/ Convert3
    \/ ReturnTrue
    \/ Tally
    \/ Summary

Spec == Init /\ [][Next]_vars

\* the control thread is the only thread and every call it makes returns
FairSpec == Spec /\ WF_vars(Next)

\* KeyboardInterrupt raised in the control thread while main runs. It is not an
\* Exception, so no handler of process_state catches it. contracts.py has no handler
\* for it; contracts2.py catches it around main() and prints "Process interrupted by
\* user" and "Process completed".
Interrupt ==
    /\ pc \in {"main_loop", "content", "gate", "assemble", "configure", "conv1",
               "conv2", "conv3", "success", "ret"}
    /\ failure' = "interrupt"
    /\ IF variant = "html"
       THEN pc' = "interrupted" /\ UNCHANGED escaped
       ELSE pc' = "crashed" /\ escaped' = TRUE
    /\ UNCHANGED <<variant, idx, kind, content, status, result, successful_states,
                   failed_states, files, invoked, processed, summary, attempts,
                   requests, pureVars>>

NextInterrupt == Next \/ Interrupt

SpecInterrupt == Init /\ [][NextInterrupt]_vars


-----------------------------------------------------------------------------
(* Properties *)

InProcessState ==
    pc \in {"content", "gate", "assemble", "configure", "conv1", "conv2", "conv3",
            "success", "ret"}

FilesOf(c) == {f \in files : f.code = c}

LoopFinished == pc = "finished" \/ (pc = "main_loop" /\ idx > NumRecords)

FailedRecords == {c \in Codes : status[c] = "failed"}

\* C1: whenever one or more of the four content calls of a record returned None,
\* process_state returns failure for the record, create_document is never called
\* for it and no file is written for it (both variants).
C1_NoneFailsRecord ==
    (InProcessState /\ \E k \in Kinds : content[k] = None)
        => /\ cur \notin invoked
           /\ FilesOf(cur) = {}
           /\ pc \notin {"assemble", "configure", "conv1", "conv2", "conv3", "success"}
           /\ (pc = "ret" => result = "false" /\ status[cur] = "failed")

\* only the third call (service areas) returned None
C1_Witness ==
    /\ pc = "ret"
    /\ result = "false"
    /\ content[3] = None
    /\ \A k \in Kinds \ {3} : Truthy(content[k])

\* C2: once the batch loop has finished, the success counter is N - K and the failed
\* list holds exactly the K failed records, each once, K being the number of records
\* whose process_state returned failure.
C2_SummaryCounts ==
    LoopFinished
        => /\ successful_states = NumRecords - Cardinality(FailedRecords)
           /\ Len(failed_states) = Cardinality(FailedRecords)
           /\ {failed_states[i] : i \in 1..Len(failed_states)} = FailedRecords

\* the first and the third record failed, the second succeeded
C2_Witness ==
    /\ LoopFinished
    /\ failed_states = <<Records[1], Records[3]>>
    /\ status[Records[2]] = "done"
    /\ successful_states = NumRecords - 2

\* C3: whatever fails while a record is processed, process_state returns the failed
\* outcome and no exception leaves it.
C3_FailureIsReturned ==
    /\ ~escaped
    /\ pc # "crashed"
    /\ (pc = "ret" /\ failure # "none") => (result = "false" /\ status[cur] = "failed")
    /\ (pc = "ret" /\ result = "true") => failure = "none"

\* the assembler raised after the content gate had passed
C3_Witness ==
    /\ pc = "ret"
    /\ failure = "assembler"
    /\ cur \in invoked
    /\ result = "false"

\* C4: every record is handed to process_state exactly once and in store order, the
\* summary is printed only when every record is done or failed, and it is printed
\* eventually, whatever records fail.
C4_BatchNeverAborts ==
    /\ [](processed = SubSeq(Records, 1, Len(processed)))
    /\ [](summary => /\ processed = Records
                     /\ \A c \in Codes : status[c] \in {"done", "failed"})
    /\ <>summary

\* the summary is printed after a batch whose first record failed
C4_Witness ==
    /\ summary
    /\ processed = Records
    /\ status[Records[1]] = "failed"
    /\ status[Records[NumRecords]] = "done"

\* C5: generate_content_with_bedrock never raises; at whichever step the invocation
\* fails it returns None.
C5_NeverRaises ==
    call.stage = "returned"
        => /\ ~call.raised
           /\ (call.fail # "none" => call.value = None)

GoodShape(b) ==
    /\ b.json
    /\ b.isObject
    /\ b.hasContent
    /\ Len(b.content) >= 1
    /\ b.content[1].isDict
    /\ b.content[1].hasText

\* C6: once the service client exists, the call returns the text of the first element
\* of "content" when the response has that shape, and None for every other response
\* shape and for a transport error.
C6_FirstTextOrNone ==
    (call.stage = "returned" /\ call.fail # "client")
        => /\ ~call.raised
           /\ IF call.fail = "none" /\ GoodShape(call.body)
              THEN call.value = Str(call.body.content[1].text)
              ELSE call.value = None

\* two elements with different texts: the first one's is returned
C6_Witness ==
    /\ call.stage = "returned"
    /\ call.fail = "none"
    /\ GoodShape(call.body)
    /\ Len(call.body.content) = 2
    /\ call.body.content[2].hasText
    /\ call.body.content[2].text # call.body.content[1].text
    /\ call.value = Str(call.body.content[1].text)

\* C7: a content value that is None or the empty string fails the record: the
\* assembler is not called and no file is written.
C7_EmptyFailsRecord ==
    (InProcessState /\ \E k \in Kinds : content[k] \in {None, Str(<<>>)})
        => /\ cur \notin invoked
           /\ FilesOf(cur) = {}
           /\ pc \notin {"assemble", "configure", "conv1", "conv2", "conv3", "success"}
           /\ (pc = "ret" => result = "false" /\ status[cur] = "failed")

\* no call returned None, the rate schedule is the empty string
C7_Witness ==
    /\ pc = "ret"
    /\ result = "false"
    /\ failure = "gate"
    /\ content[2] = Str(<<>>)
    /\ \A k \in Kinds : content[k].tag = "text"

C8_OriginalMoves ==
    { <<"pending", "contracted">>, <<"contracted", "assembled">>,
      <<"assembled", "done">>, <<"pending", "failed">> }

\* C8 as stated: a record's status moves only pending -> contracted -> assembled ->
\* done or pending -> failed.
C8_OnlyPendingFails ==
    [][\A c \in Codes :
          status'[c] # status[c] => <<status[c], status'[c]>> \in C8_OriginalMoves]_vars

C8_AmendedMoves ==
    C8_OriginalMoves \cup {<<"contracted", "failed">>, <<"assembled", "failed">>}

C8_Step ==
    /\ \A c \in Codes :
          status'[c] # status[c] =>
              /\ <<status[c], status'[c]>> \in C8_AmendedMoves
              /\ status'[c] = "contracted" => \A k \in Kinds : Truthy(content[k])
              /\ status'[c] = "assembled" =>
                    /\ c \in invoked'
                    /\ File(c, IF variant = "pdf" THEN "pdf" ELSE "html") \in files'
              /\ <<status[c], status'[c]>> = <<"assembled", "failed">> => variant = "html"
    /\ \A i \in 1..Len(failed_states') : status'[failed_states'[i]] = "failed"
    /\ successful_states' <= Cardinality({c \in Codes : status'[c] = "done"})

\* C8 amended: a record's status moves pending -> contracted -> assembled -> done, or
\* to failed from pending, from contracted (the assembler raised) or, in the HTML
\* variant, from assembled (the conversion failed); contracted is entered only with
\* four non-empty contents, assembled only once the assembler has written its
\* document, done and failed are never left, and no record listed as failed is
\* counted as a success.
C8_StatusMoves == [][C8_Step]_vars

\* HTML variant: a record failed after its .html had been assembled and written,
\* in a batch in which another record is done
C8_Witness ==
    /\ pc = "ret"
    /\ status[cur] = "failed"
    /\ failure \in {"renderer", "configure"}
    /\ File(cur, "html") \in files
    /\ \E c \in Codes : status[c] = "done"

RECURSIVE LeadingRun(_, _)
LeadingRun(s, c) ==
    IF s # <<>> /\ Head(s) = c THEN 1 + LeadingRun(Tail(s), c) ELSE 0

NonBlankLines(reply) == SelectSeq(split(reply, "\n"), NonBlank)

\* C9: a line that begins with a run of k >= 1 '#' gives a block of depth k whose text
\* is the line without the run and without surrounding whitespace; every other
\* non-blank line gives a depth-0 block holding the line verbatim.
C9_DepthIsLeadingRun ==
    doc.stage = "parsed"
        => LET lines == NonBlankLines(doc.reply)
           IN  /\ Len(doc.blocks) = Len(lines)
               /\ \A i \in 1..Len(lines) :
                     LET k == LeadingRun(lines[i], "#")
                     IN  IF k >= 1
                         THEN /\ doc.blocks[i].level = k
                              /\ doc.blocks[i].text =
                                     strip(SubSeq(lines[i], k + 1, Len(lines[i])), Whitespace)
                         ELSE doc.blocks[i] = [level |-> 0, text |-> lines[i]]

\* C10: one block per non-blank line, in source order, none for a blank line, and no
\* block with empty text.
C10_NoEmptyBlock ==
    doc.stage = "parsed"
        => LET lines == NonBlankLines(doc.reply)
           IN  /\ Len(doc.blocks) = Len(lines)
               /\ \A i \in 1..Len(lines) :
                     /\ doc.blocks[i].level = 0 => doc.blocks[i].text = lines[i]
                     /\ doc.blocks[i].text # <<>>

-----------------------------------------------------------------------------
(* Properties of the table parser *)

CellCount(line) == count(line, "|") + 1

\* position of the j-th '|' of line; 0 for j = 0, Len(line) + 1 past the last one
DelimAt(line, j) ==
    IF j = 0 THEN 0
    ELSE IF j >= CellCount(line) THEN Len(line) + 1
    ELSE CHOOSE p \in 1..Len(line) :
             line[p] = "|" /\ Cardinality({q \in 1..p : line[q] = "|"}) = j

\* the j-th source cell of line: the text between its (j-1)-th and j-th '|'
Cell(line, j) == SubSeq(line, DelimAt(line, j - 1) + 1, DelimAt(line, j) - 1)

\* lines of a text as str.splitlines() gives them for '\n'
Lines(text) ==
    IF text = <<>> THEN <<>>
    ELSE IF text[Len(text)] = "\n" THEN split(SubSeq(text, 1, Len(text) - 1), "\n")
    ELSE split(text, "\n")

Rectangular(lines) ==
    \A i \in 1..Len(lines) : CellCount(lines[i]) = CellCount(lines[1])

RowsAreCellsOf(rows, lines) ==
    /\ Len(rows) = Len(lines)
    /\ \A i \in 1..Len(lines) :
          /\ Len(rows[i]) = CellCount(lines[i])
          /\ \A j \in 1..CellCount(lines[i]) :
                rows[i][j] = strip(Cell(lines[i], j), Whitespace)

\* C11 as stated: a reply of n >= 1 lines, each holding k '|'-separated cells, gives a grid
\* of exactly n rows of k cells in line order, each cell the source cell stripped.
C11_GridOfReplyLines ==
    (table.stage = "parsed" /\ Lines(table.data) # <<>> /\ Rectangular(Lines(table.data)))
        => RowsAreCellsOf(table.rows, Lines(table.data))

\* C11 amended: the lines are those of the reply with its leading and trailing
\* whitespace removed (the empty text counting as one empty line); when each of these
\* n lines holds k cells the grid has exactly n rows of k cells in line order, row 0
\* being the first line, each cell the source cell stripped.
C11_GridOfStrippedLines ==
    LET lines == split(strip(table.data, Whitespace), "\n")
    IN  (table.stage = "parsed" /\ Rectangular(lines))
            => /\ RowsAreCellsOf(table.rows, lines)
               /\ \A i \in 1..Len(table.rows) : Len(table.rows[i]) = Len(table.rows[1])

\* two lines of two cells, with whitespace around a cell
C11_Witness ==
    /\ table.stage = "parsed"
    /\ table.data = <<"a", " ", "|", "\n", "|", "b">>
    /\ table.rows = << <<<<"a">>, <<>>>>, <<<<>>, <<"b">>>> >>

\* C12: a row whose cell count differs from the header's is kept with exactly its own
\* cells, neither padded nor truncated, and every other row is kept as it is.
C12_RaggedRowsKept ==
    LET lines == split(strip(table.data, Whitespace), "\n")
    IN  (table.stage = "parsed" /\ ~Rectangular(lines))
            => /\ Len(table.rows) = Len(lines)
               /\ \A i \in 1..Len(lines) :
                     table.rows[i] =
                         [j \in 1..CellCount(lines[i]) |->
                             strip(Cell(lines[i], j), Whitespace)]

\* a header of one cell followed by a row of three
C12_Witness ==
    /\ table.stage = "parsed"
    /\ Len(table.rows) = 2
    /\ Len(table.rows[1]) = 1
    /\ Len(table.rows[2]) = 3
    /\ table.rows[1][1] = <<"a">>

\* C14: the empty reply gives no block, the empty or whitespace-only reply gives no
\* row.
C14_EmptyReplyEmptyGrid ==
    /\ (doc.stage = "parsed" /\ doc.reply = <<>>) => doc.blocks = <<>>
    /\ (table.stage = "parsed" /\ strip(table.data, Whitespace) = <<>>)
           => table.rows = <<>>

-----------------------------------------------------------------------------
(* Properties of the assembly, the conversion and the content requests *)

\* a table reply in which some row's cell count differs from the header's
Ragged(v) ==
    /\ v.tag = "text"
    /\ ~Rectangular(split(strip(v.text, Whitespace), "\n"))

\* C13: in the PDF variant a record with a table reply in which some row's column count
\* differs from the header's, shorter or longer, always ends as a failure of the
\* assembly and is never reported successful.
C13_RaggedTableFails ==
    (/\ variant = "pdf"
     /\ pc \in {"success", "ret"}
     /\ content_gate(content)
     /\ \E k \in 2..4 : Ragged(content[k]))
        => (pc = "ret" /\ result = "false" /\ failure = "assembler")

\* C17 as stated: in the HTML variant a record whose HTML file has been written is
\* declared failed only after all three conversion methods have been attempted.
C17_FailedAfterAllThree ==
    (/\ variant = "html"
     /\ pc = "ret"
     /\ result = "false"
     /\ File(cur, "html") \in files)
        => attempts = conversion_methods

\* C17 amended: the methods attempted for a record are always the first ones of
\* (from file, full options), (from string, full options), (from file, simple options)
\* in that order; method k is reached only with the k-1 methods before it attempted and
\* failed; the record succeeds only after an attempt, which is its last; a record that
\* fails in a method has attempted all three; and a record whose renderer configuration
\* is not found is declared failed with no method attempted.
C17_FallbackOrder ==
    /\ Len(attempts) <= Len(conversion_methods)
    /\ \A k \in 1..Len(attempts) : attempts[k] = conversion_methods[k]
    /\ attempts # <<>> => (variant = "html" /\ File(cur, "html") \in files)
    /\ \A k \in 1..Len(ConvPcs) :
          pc = ConvPcs[k] => (Len(attempts) = k - 1 /\ File(cur, "pdf") \notin files)
    /\ (variant = "html" /\ pc = "success")
          => (attempts # <<>> /\ File(cur, "pdf") \in files)
    /\ (variant = "html" /\ pc = "ret" /\ failure = "renderer")
          => (attempts = conversion_methods /\ result = "false")
    /\ (variant = "html" /\ pc = "ret" /\ failure = "configure")
          => (attempts = <<>> /\ result = "false" /\ File(cur, "html") \in files)

\* the record fails after the third method
C17_Witness ==
    /\ variant = "html"
    /\ pc = "ret"
    /\ result = "false"
    /\ attempts = conversion_methods

\* one step of the log of content requests of the current record
C20_Step ==
    /\ \A k \in 1..Len(requests') : requests'[k] = k
    /\ (requests' # requests /\ requests' # <<>>)
          => /\ pc = "content"
             /\ requests' = Append(requests, Len(requests) + 1)
             /\ \A j \in 1..Len(requests) : content[j] # Unset
             /\ Len(processed) = idx
             /\ \A i \in 1..(idx - 1) : status[Records[i]] \in {"done", "failed"}

\* C20: within a record the content requests are issued in the order contract body,
\* rate schedule, service areas, performance standards, each after the one before it
\* returned and each kind at most once, and the first request of a record is issued
\* only after every earlier record reached its terminal outcome.
C20_SequentialRequests == [][C20_Step]_vars

\* the four requests of the second record have been issued
C20_Witness ==
    /\ idx = 2
    /\ pc = "gate"
    /\ requests = <<1, 2, 3, 4>>

-----------------------------------------------------------------------------
(* Properties of the file names, the parts of the artifact, the interrupt and the
   prompts *)

SameDate(a, b) == a.year = b.year /\ a.month = b.month /\ a.day = b.day

\* C15: two calls of generate_filename for the same record return identical names when
\* made on the same calendar date, whatever the time of day, and names that differ, and
\* differ only inside the 8 characters of the YYYYMMDD part, when made on different
\* dates.
C15_NameDependsOnDateOnly ==
    naming.stage = "second"
        => LET a    == naming.names[1]
               b    == naming.names[2]
               from == Len(BaseName) + Len(naming.state_abbrev) + 3
           IN  IF SameDate(naming.first, naming.second)
               THEN a = b
               ELSE /\ a # b
                    /\ Len(a) = Len(b)
                    /\ \A p \in 1..Len(a) :
                          SubSeq(a, p, p) # SubSeq(b, p, p) => p \in from..(from + 7)

\* January 12 and November 2 of one year, at different times of day
C15_Witness ==
    /\ naming.stage = "second"
    /\ naming.first = [year |-> 2024, month |-> 1, day |-> 12, hour |-> 0]
    /\ naming.second = [year |-> 2024, month |-> 11, day |-> 2, hour |-> 23]
    /\ naming.names[1] # naming.names[2]

\* the parts the outline of the artifact is made of
Outline(story) ==
    LET InOutline(p) == p.part \in {"title", "toc", "body", "attachments heading",
                                    "table title", "table"}
        sel == SelectSeq(story, InOutline)
    IN  [i \in 1..Len(sel) |-> IF sel[i].part = "body" THEN Part("body", "") ELSE sel[i]]

\* title page, table of contents, n body blocks, 'Attachments' divider, three titled
\* tables
ExpectedOutline(n) ==
    <<Part("title", ""), Part("toc", "")>>
        \o [i \in 1..n |-> Part("body", "")]
        \o <<Part("attachments heading", "Attachments"),
             Part("table title", AttachmentTitles[1]), Part("table", AttachmentTitles[1]),
             Part("table title", AttachmentTitles[2]), Part("table", AttachmentTitles[2]),
             Part("table title", AttachmentTitles[3]), Part("table", AttachmentTitles[3])>>

\* C16: for a contract body whose headings all have a style, the artifact of either
\* variant is made of a title, a table of contents, the body blocks, an 'Attachments'
\* divider and the rate-schedule, service-areas and performance-standards tables, each
\* with its title, in that order.
C16_SameOrderedParts ==
    (doc.stage = "parsed" /\ FirstBadHeading(doc.blocks) = 0)
        => Outline(doc.story) = ExpectedOutline(Len(doc.blocks))

\* C18: in both variants an interrupt arriving while the batch runs is caught and the
\* generation summary is printed.
C18_InterruptPrintsSummary ==
    failure = "interrupt" => (~escaped /\ summary)

\* the values of the record fields the template of kind k in variant v references
Referenced(v, k, r) ==
    IF k = 1
    THEN {r.state, r.health_agency, r.agency_city, r.provider_name, r.provider_city,
          r.contract_date, r.provider_details.term,
          ToString(r.provider_details.fleet_size),
          r.provider_details.operating_hours,
          ToString(r.provider_details.driver_count)}
             \cup {r.service_regions[i] : i \in 1..Len(r.service_regions)}
    ELSE IF k = 2 /\ v = "pdf"
    THEN {r.health_agency, r.provider_name, r.state}
    ELSE {r.provider_name, r.state}

\* v occurs in text as a contiguous substring
Contains(text, v) ==
    \E i \in 1..(Len(text) - Len(v) + 1) : SubSeq(text, i, i + Len(v) - 1) = v

\* C19: for every record and each of the four content kinds the built prompt contains
\* the literal value of every record field its template references; the contract-body
\* prompt contains the state, agency, agency city, provider, provider city, contract
\* date, term, every service region, fleet size, operating hours and driver count.
C19_PromptHoldsReferencedFields ==
    prompt.stage = "built"
        => \A v \in Referenced(prompt.variant, prompt.kind, prompt.record) :
              Contains(prompt.text, v)

\* a contract-body prompt for a record of three service regions
C19_Witness ==
    /\ prompt.stage = "built"
    /\ prompt.kind = 1
    /\ Len(prompt.record.service_regions) = 3
    /\ Contains(prompt.text, "Seminole County, Osceola County")
    /\ Contains(prompt.text, "Fleet size: 75 vehicles")

-----------------------------------------------------------------------------
(* Properties of the column widths *)

RECURSIVE FracSum(_)
FracSum(ws) == IF ws = <<>> THEN Frac(0, 1) ELSE FracAdd(ws[1], FracSum(Tail(ws)))

\* the longest cell text of column j
LongestIn(rows, j) ==
    CHOOSE m \in 0..66 :
        /\ \E i \in 1..Len(rows) : Len(rows[i][j]) = m
        /\ \A i \in 1..Len(rows) : Len(rows[i][j]) <= m

\* C21: for a rectangular grid of c >= 1 columns the width of column j is the smaller of
\* 0.1 inch times the longest cell text of column j and the page width divided by c; so
\* no column is wider than page width / c and the widths add up to at most the page
\* width.
C21_ColumnWidthCapped ==
    table.stage = "widths"
        => LET c   == Len(table.rows[1])
               cap == Frac(doc_width, c)
           IN  /\ Len(table.widths) = c
               /\ \A j \in 1..c :
                     LET natural == Frac(LongestIn(table.rows, j) * inch, 10)
                     IN  /\ FracEq(table.widths[j],
                                   IF FracLeq(natural, cap) THEN natural ELSE cap)
                         /\ FracLeq(table.widths[j], cap)
                         /\ FracLeq(table.widths[j], natural)
               /\ FracLeq(FracSum(table.widths), Frac(doc_width, 1))

\* two columns: the first is cut to half the page width, the second keeps 0.1 inch
C21_Witness ==
    /\ table.stage = "widths"
    /\ Len(table.rows) = 2
    /\ Len(table.widths) = 2
    /\ table.widths[1] = Frac(doc_width, 2)
    /\ table.widths[2] = Frac(inch, 10)

-----------------------------------------------------------------------------
(* Properties of the heading styles *)

BodyParts(story) ==
    LET IsBody(p) == p.part = "body"
    IN  SelectSeq(story, IsBody)

\* C22: every depth the parser emits has its style: a block of depth k >= 1 is rendered
\* with the style 'Heading k' in the PDF variant and with the tag hk in the HTML
\* variant, and the body is assembled without an exception whatever the depths of its
\* headings.
C22_EveryDepthHasStyle ==
    doc.stage = "parsed"
        => /\ doc.raised = "none"
           /\ Len(BodyParts(doc.story)) = Len(doc.blocks)
           /\ \A i \in 1..Len(doc.blocks) :
                 doc.blocks[i].level >= 1
                     => BodyParts(doc.story)[i].of =
                            (IF doc.variant = "pdf" THEN "Heading" ELSE "h")
                                \o ToString(doc.blocks[i].level)

-----------------------------------------------------------------------------
(* Properties of the requests of a record, the batch loop and the .html file *)

\* C23: every record causes exactly four content requests whatever the earlier calls
\* gave, and the gate is evaluated only after the fourth request returned.
C23_FourRequestsPerRecord ==
    pc \in {"gate", "assemble", "configure", "conv1", "conv2", "conv3", "success", "ret"}
        => requests = <<1, 2, 3, 4>>

\* position of a record identifier in the configuration store
Position(c) == CHOOSE i \in 1..Len(Records) : Records[i] = c

BatchCounts ==
    /\ pc \in {"main_loop", "finished"}
          => successful_states + Len(failed_states) = Len(processed)
    /\ \A i, j \in 1..Len(failed_states) :
          i < j => Position(failed_states[i]) < Position(failed_states[j])
    /\ \A i \in 1..Len(failed_states) :
          \E k \in 1..Len(processed) : processed[k] = failed_states[i]

C24_Step ==
    /\ BatchCounts'
    /\ successful_states' >= successful_states
    /\ Len(failed_states') >= Len(failed_states)
    /\ SubSeq(failed_states', 1, Len(failed_states)) = failed_states

\* C24: after each processed record the success counter plus the length of the failed
\* list is the number of records processed so far; the failed list has no duplicates,
\* holds only identifiers of processed records in the order of the configuration
\* store; the counter and the list never decrease.
C24_BatchLoopInvariant == [][C24_Step]_vars

\* two failed records and one successful one
C24_Witness ==
    /\ pc = "main_loop"
    /\ Len(processed) = 3
    /\ successful_states = 1
    /\ failed_states = <<Records[1], Records[3]>>

HtmlFileState ==
    variant = "html"
        => /\ pc \in {"configure", "conv1", "conv2", "conv3"}
                 => (File(cur, "html") \in files /\ File(cur, "pdf") \notin files)
           /\ (pc = "assemble" /\ content_gate(content)) => File(cur, "html") \notin files
           /\ attempts # <<>> => File(cur, "html") \in files
           /\ (pc = "ret" /\ result = "true")
                 => /\ File(cur, "html") \in files
                    /\ File(cur, "pdf") \in files
                    /\ attempts # <<>>
           /\ (pc = "ret" /\ failure \in {"configure", "renderer"})
                 => /\ result = "false"
                    /\ File(cur, "html") \in files
                    /\ File(cur, "pdf") \notin files

C25_Step == HtmlFileState' /\ files \subseteq files'

\* C25: in the HTML variant the .html file is written after the gate passed and before
\* any conversion step; a record is reported successful only if its .html file was
\* written and a conversion method succeeded; a record whose conversion failed is
\* reported failed and its .html file stays written.
C25_HtmlFileStays == [][C25_Step]_vars

\* the second record failed in the conversion and its .html file is there
C25_Witness ==
    /\ variant = "html"
    /\ idx = 2
    /\ pc = "ret"
    /\ result = "false"
    /\ failure = "renderer"
    /\ File(cur, "html") \in files
    /\ File(cur, "pdf") \notin files

====
